---- MODULE Spec2Model ----
(***************************************************************************)
(* A model of the py_rust_module extension: the User record with its JSON  *)
(* codec (serde_json on a derived Serialize/Deserialize struct), and the   *)
(* four user-processing functions (getattr path and direct field path,     *)
(* plain and benchmark variants).                                          *)
(*                                                                         *)
(* The crate root src/src/lib.rs holds one copy of every function; the     *)
(* files src/src/<name>.rs hold a second copy.  The two copies agree       *)
(* except for benchmark_pydantic_process, so that function is modelled     *)
(* twice: benchmark_pydantic_process (lib.rs, nested matches) and          *)
(* benchmark_pydantic_process_rs (benchmark_pydantic_process.rs, through   *)
(* try_get_active_age).                                                    *)
(***************************************************************************)
EXTENDS Integers, Sequences, FiniteSets, TLC

VARIABLES
    users,      \* the Python sequence handed to a processing function
    res,        \* the last call and what it returned
    user,       \* the User instance of the codec and attribute scenarios
    text,       \* a JSON text: a sequence of one-character strings
    origin,     \* how `text` was produced
    decoded,    \* what User::from_json returned for `text`
    expect,     \* the caller's record of `user`: the values it was built
                \* with, then the value last assigned to each attribute
    calc,       \* the Calculator instance: its `value`
    steps,      \* how many calls the Calculator has served
    args        \* the two integers handed to add and multiply, and whether
                \* the extension was built with overflow checks

vars == <<users, res, user, text, origin, decoded, expect, calc, steps, args>>

\* The variables of the scenarios that are not running.
NoUser == "none"
NoCalculator == "none"
NoArgs == <<>>

\* ---------------------------------------------------------------- bounds

\* Longest sequence of entities handed to a processing function.
MaxUsers == 3

\* ------------------------------------------------- Python values (pyo3)

\* A Python value as pyo3 sees it: a type tag and an integer payload
\* (a bool carries 0 or 1, an int its value, the others 0).
PyBool(b) == [t |-> "bool", v |-> IF b THEN 1 ELSE 0]
PyInt(n) == [t |-> "int", v |-> n]
PyStr == [t |-> "str", v |-> 0]
\* The attribute is not there: getattr raises AttributeError.
Absent == [t |-> "absent", v |-> 0]

\* Results of fallible calls: PyResult<T>.
Ok(x) == [ok |-> TRUE, val |-> x]
Err(kind) == [ok |-> FALSE, val |-> kind]

\* Python's None.
PyNone == [t |-> "none", v |-> 0]

\* Mutant of GetAttr: getattr(obj, name, None), a missing attribute reads as None.
GetAttrOrNone(e, name) ==
    LET a == IF name = "active" THEN e.active ELSE e.age
    IN  Ok(IF a.t = "absent" THEN PyNone ELSE a)

\* user_obj.getattr(name): Err when the object has no such attribute.
GetAttr(e, name) ==
    LET a == IF name = "active" THEN e.active ELSE e.age
    IN  IF a.t = "absent" THEN Err("AttributeError") ELSE Ok(a)

\* Mutant of ExtractBool: is_truthy(), any value is accepted.
ExtractBoolTruthy(pv) ==
    Ok(IF pv.t \in {"bool", "int"} THEN pv.v # 0 ELSE pv.t = "str")

\* .extract::<bool>(): only a Python bool is accepted.
ExtractBool(pv) ==
    IF pv.t = "bool" THEN Ok(pv.v = 1) ELSE Err("TypeError")

\* Mutant of ExtractI32: .extract().unwrap_or(0).
ExtractI32OrZero(pv) ==
    Ok(IF pv.t \in {"int", "bool"} THEN pv.v ELSE 0)

\* .extract::<i32>(): a Python int (bool is a subclass of int); the ints
\* of the model are all in the i32 range.
ExtractI32(pv) ==
    IF pv.t \in {"int", "bool"} THEN Ok(pv.v) ELSE Err("TypeError")

\* Mutant of ExtractUser: duck typing, any object with the two attributes.
ExtractUserDuck(e) ==
    IF e.active.t = "bool" /\ e.age.t = "int" THEN Ok(e) ELSE Err("TypeError")

\* user_obj.extract::<PyRef<User>>(): only an instance of the User pyclass.
ExtractUser(e) ==
    IF e.cls = "User" THEN Ok(e) ELSE Err("TypeError")

\* Mutant of FieldActive: the test inverted.
FieldInactive(u) == u.active.v # 1

\* user.active and user.age: direct reads of the pyclass's typed fields.
FieldActive(u) == u.active.v = 1
FieldAge(u) == u.age.v

\* `?` on a PyResult: the success value (used only after the ok test).
Unwrap(r) == r.val

\* ------------------------------------------------------------ entities

\* An element of the sequence: its class and what its `active` and `age`
\* attributes hold.  An instance of the User pyclass has a bool `active`
\* and an i32 `age` (typed fields with #[pyo3(get, set)]).
Entity(cls, active, age) == [cls |-> cls, active |-> active, age |-> age]

UserEntities ==
    { Entity("User", PyBool(TRUE), PyInt(30)),
      Entity("User", PyBool(FALSE), PyInt(99)),
      Entity("User", PyBool(TRUE), PyInt(10)) }

\* Objects of another class (a Pydantic model) with a bool and an int.
WellFormedObjects ==
    { Entity("obj", PyBool(TRUE), PyInt(30)),
      Entity("obj", PyBool(FALSE), PyInt(99)),
      Entity("obj", PyBool(TRUE), PyInt(10)) }

\* Objects lacking an attribute, or holding a value of another type.
MalformedObjects ==
    { Entity("obj", Absent, PyInt(30)),
      Entity("obj", PyStr, PyInt(30)),
      Entity("obj", PyBool(TRUE), Absent),
      Entity("obj", PyBool(TRUE), PyStr),
      Entity("obj", PyBool(FALSE), Absent),
      Entity("obj", PyBool(FALSE), PyStr) }

Entities == UserEntities \cup WellFormedObjects \cup MalformedObjects

RECURSIVE SeqsUpTo(_, _)
SeqsUpTo(S, n) ==
    IF n = 0 THEN { <<>> }
    ELSE LET shorter == SeqsUpTo(S, n - 1)
         IN  shorter \cup { Append(s, x) : s \in { q \in shorter : Len(q) = n - 1 }, x \in S }

\* ------------------------------------------------- processing functions

\* start.elapsed().as_micros() as f64: whatever the clock says.
ElapsedSamples == {0, 250}

\* The loop of process_pydantic_users from entity i on: every `?` leaves
\* the function with the error, dropping the running totals.
RECURSIVE PydanticLoop(_, _, _, _)
PydanticLoop(us, i, total_age, active_count) ==
    IF i > Len(us) THEN Ok([total_age |-> total_age, active_count |-> active_count])
    ELSE LET user_obj == us[i]
             active_attr == GetAttr(user_obj, "active")
         IN  IF ~active_attr.ok THEN active_attr
             ELSE LET active == ExtractBool(Unwrap(active_attr))
                  IN  IF ~active.ok THEN active
                      ELSE IF Unwrap(active)
                      THEN LET age_attr == GetAttr(user_obj, "age")
                           IN  IF ~age_attr.ok THEN age_attr
                               ELSE LET age == ExtractI32(Unwrap(age_attr))
                                    IN  IF ~age.ok THEN age
                                        ELSE PydanticLoop(us, i + 1,
                                                 total_age + Unwrap(age),
                                                 active_count + 1)
                      ELSE PydanticLoop(us, i + 1, total_age, active_count)

\* Mutant of process_pydantic_users: the two totals returned in the other order.
process_pydantic_users_swapped(us, elapsed) ==
    LET r == PydanticLoop(us, 1, 0, 0)
    IN  IF ~r.ok THEN r
        ELSE Ok([total_age |-> r.val.active_count,
                 active_count |-> r.val.total_age,
                 elapsed |-> elapsed])

\* process_pydantic_users(users) -> PyResult<(i64, i64, f64)>
process_pydantic_users(us, elapsed) ==
    LET r == PydanticLoop(us, 1, 0, 0)
    IN  IF ~r.ok THEN r
        ELSE Ok([total_age |-> r.val.total_age,
                 active_count |-> r.val.active_count,
                 elapsed |-> elapsed])

\* The loop of process_pyo3_users and of benchmark_pyo3_process: the
\* extraction of PyRef<User> is the only fallible step.
RECURSIVE Pyo3Loop(_, _, _, _)
Pyo3Loop(us, i, total_age, active_count) ==
    IF i > Len(us) THEN Ok([total_age |-> total_age, active_count |-> active_count])
    ELSE LET u == ExtractUser(us[i])
         IN  IF ~u.ok THEN u
             ELSE IF FieldActive(Unwrap(u))
                  THEN Pyo3Loop(us, i + 1, total_age + FieldAge(Unwrap(u)), active_count + 1)
                  ELSE Pyo3Loop(us, i + 1, total_age, active_count)

\* process_pyo3_users(users) -> PyResult<(i64, i64, f64)>
process_pyo3_users(us, elapsed) ==
    LET r == Pyo3Loop(us, 1, 0, 0)
    IN  IF ~r.ok THEN r
        ELSE Ok([total_age |-> r.val.total_age,
                 active_count |-> r.val.active_count,
                 elapsed |-> elapsed])

\* Mutant of benchmark_pyo3_process: "active_count" set from total_age.
benchmark_pyo3_process_miskeyed(us, elapsed) ==
    LET r == Pyo3Loop(us, 1, 0, 0)
    IN  IF ~r.ok THEN r
        ELSE Ok([total_age |-> r.val.total_age,
                 active_count |-> r.val.total_age,
                 elapsed_us |-> elapsed])

\* benchmark_pyo3_process(users) -> PyResult<dict>: no `errors` key.
benchmark_pyo3_process(us, elapsed) ==
    LET r == Pyo3Loop(us, 1, 0, 0)
    IN  IF ~r.ok THEN r
        ELSE Ok([total_age |-> r.val.total_age,
                 active_count |-> r.val.active_count,
                 elapsed_us |-> elapsed])

\* The loop of benchmark_pydantic_process in lib.rs: only a failed
\* getattr("active") is counted; every other failure is an `if let Ok`
\* that does not match, and the entity is passed over.
RECURSIVE BenchPydanticLoop(_, _, _, _, _)
BenchPydanticLoop(us, i, total_age, active_count, errors) ==
    IF i > Len(us)
    THEN [total_age |-> total_age, active_count |-> active_count, errors |-> errors]
    ELSE LET user_obj == us[i]
             active_attr == GetAttr(user_obj, "active")
         IN  IF ~active_attr.ok
             THEN BenchPydanticLoop(us, i + 1, total_age, active_count, errors + 1)
             ELSE LET active == ExtractBool(Unwrap(active_attr))
                      age_attr == GetAttr(user_obj, "age")
                      age == ExtractI32(Unwrap(age_attr))
                  IN  IF active.ok /\ Unwrap(active) /\ age_attr.ok /\ age.ok
                      THEN BenchPydanticLoop(us, i + 1, total_age + Unwrap(age),
                                             active_count + 1, errors)
                      ELSE BenchPydanticLoop(us, i + 1, total_age, active_count, errors)

\* benchmark_pydantic_process(users) -> PyResult<dict>, lib.rs
benchmark_pydantic_process(us, elapsed) ==
    LET r == BenchPydanticLoop(us, 1, 0, 0, 0)
    IN  Ok([total_age |-> r.total_age, active_count |-> r.active_count,
            errors |-> r.errors, elapsed_us |-> elapsed])

\* Mutant of try_get_active_age: `age` is read before `active` is tested.
try_get_active_age_eager(obj) ==
    LET active_attr == GetAttr(obj, "active")
        age_attr == GetAttr(obj, "age")
    IN  IF ~active_attr.ok THEN active_attr
        ELSE LET active == ExtractBool(Unwrap(active_attr))
             IN  IF ~active.ok THEN active
                 ELSE IF ~age_attr.ok THEN age_attr
                 ELSE LET age == ExtractI32(Unwrap(age_attr))
                      IN  IF ~age.ok THEN age
                          ELSE IF ~Unwrap(active) THEN Ok([some |-> FALSE, age |-> 0])
                          ELSE Ok([some |-> TRUE, age |-> Unwrap(age)])

\* try_get_active_age(obj) -> PyResult<Option<i32>>: Ok(None) is encoded
\* as Ok([some |-> FALSE]), Ok(Some(age)) as Ok([some |-> TRUE, age |-> age]).
try_get_active_age(obj) ==
    LET active_attr == GetAttr(obj, "active")
    IN  IF ~active_attr.ok THEN active_attr
        ELSE LET active == ExtractBool(Unwrap(active_attr))
             IN  IF ~active.ok THEN active
                 ELSE IF ~Unwrap(active) THEN Ok([some |-> FALSE, age |-> 0])
                 ELSE LET age_attr == GetAttr(obj, "age")
                      IN  IF ~age_attr.ok THEN age_attr
                          ELSE LET age == ExtractI32(Unwrap(age_attr))
                               IN  IF ~age.ok THEN age
                                   ELSE Ok([some |-> TRUE, age |-> Unwrap(age)])

\* The loop of benchmark_pydantic_process in benchmark_pydantic_process.rs:
\* every Err of try_get_active_age is counted.
RECURSIVE BenchPydanticLoopRs(_, _, _, _, _)
BenchPydanticLoopRs(us, i, total_age, active_count, errors) ==
    IF i > Len(us)
    THEN [total_age |-> total_age, active_count |-> active_count, errors |-> errors]
    ELSE LET r == try_get_active_age(us[i])
         IN  IF ~r.ok
             THEN BenchPydanticLoopRs(us, i + 1, total_age, active_count, errors + 1)
             ELSE IF Unwrap(r).some
             THEN BenchPydanticLoopRs(us, i + 1, total_age + Unwrap(r).age,
                                      active_count + 1, errors)
             ELSE BenchPydanticLoopRs(us, i + 1, total_age, active_count, errors)

\* benchmark_pydantic_process(users) -> PyResult<dict>,
\* benchmark_pydantic_process.rs
benchmark_pydantic_process_rs(us, elapsed) ==
    LET r == BenchPydanticLoopRs(us, 1, 0, 0, 0)
    IN  Ok([total_age |-> r.total_age, active_count |-> r.active_count,
            errors |-> r.errors, elapsed_us |-> elapsed])

\* ------------------------------------------------- processing scenario

NoCall == [op |-> "none", ret |-> Err("none")]

InitProc ==
    /\ users \in SeqsUpTo(Entities, MaxUsers)
    /\ res = NoCall
    /\ user = 0 /\ text = <<>> /\ origin = "none" /\ decoded = Err("none")
    /\ expect = NoUser /\ calc = NoCalculator /\ steps = 0 /\ args = NoArgs

CallProcessPydantic ==
    /\ \E el \in ElapsedSamples :
          res' = [op |-> "process_pydantic_users", ret |-> process_pydantic_users(users, el)]
    /\ UNCHANGED <<users, user, text, origin, decoded, expect, calc, steps, args>>

CallProcessPyo3 ==
    /\ \E el \in ElapsedSamples :
          res' = [op |-> "process_pyo3_users", ret |-> process_pyo3_users(users, el)]
    /\ UNCHANGED <<users, user, text, origin, decoded, expect, calc, steps, args>>

CallBenchmarkPydantic ==
    /\ \E el \in ElapsedSamples :
          res' = [op |-> "benchmark_pydantic_process",
                  ret |-> benchmark_pydantic_process(users, el)]
    /\ UNCHANGED <<users, user, text, origin, decoded, expect, calc, steps, args>>

CallBenchmarkPydanticRs ==
    /\ \E el \in ElapsedSamples :
          res' = [op |-> "benchmark_pydantic_process_rs",
                  ret |-> benchmark_pydantic_process_rs(users, el)]
    /\ UNCHANGED <<users, user, text, origin, decoded, expect, calc, steps, args>>

CallBenchmarkPyo3 ==
    /\ \E el \in ElapsedSamples :
          res' = [op |-> "benchmark_pyo3_process", ret |-> benchmark_pyo3_process(users, el)]
    /\ UNCHANGED <<users, user, text, origin, decoded, expect, calc, steps, args>>

NextProc ==
    \/ CallProcessPydantic
    \/ CallProcessPyo3
    \/ CallBenchmarkPydantic
    \/ CallBenchmarkPydanticRs
    \/ CallBenchmarkPyo3

SpecProc == InitProc /\ [][NextProc]_vars

\* ------------------------------------------ vocabulary of the claims

\* The sequence without its i-th entity.
Remove(s, i) == SubSeq(s, 1, i - 1) \o SubSeq(s, i + 1, Len(s))

Positions == 1..Len(users)

\* LookupFailure on `active`: the member is absent.
MissingActive(e) == e.active.t = "absent"
\* TypeMismatch: a member that is read exists but has the wrong type.
ActiveMismatch(e) == e.active.t \notin {"absent", "bool"}
AgeMismatch(e) == e.active = PyBool(TRUE) /\ e.age.t \notin {"absent", "int", "bool"}
TypeMismatch(e) == ActiveMismatch(e) \/ AgeMismatch(e)
\* `active` is true and `age` cannot be read as an i32.
AgeUnreadable(e) == e.active = PyBool(TRUE) /\ e.age.t \notin {"int", "bool"}
\* A well-formed entity: boolean `active`, int32 `age`.
WellFormed(e) == e.active.t = "bool" /\ e.age.t = "int"
IsUser(e) == e.cls = "User"
AllWellFormed(us) == \A i \in 1..Len(us) : WellFormed(us[i])
AllUsers(us) == \A i \in 1..Len(us) : IsUser(us[i])

\* Sum of `age` over, and number of, the entities whose `active` is true.
RECURSIVE SumActiveAge(_)
SumActiveAge(us) ==
    IF us = <<>> THEN 0
    ELSE (IF Head(us).active = PyBool(TRUE) THEN Head(us).age.v ELSE 0)
         + SumActiveAge(Tail(us))
CountActive(us) == Cardinality({ i \in 1..Len(us) : us[i].active = PyBool(TRUE) })

\* The same `active` and `age` values carried by objects of another class.
AsObjects(us) == [ i \in 1..Len(us) |-> Entity("obj", us[i].active, us[i].age) ]

\* The call recorded in `res`, made on another sequence.
Recall(us) ==
    LET v == res.ret.val
    IN  CASE res.op = "process_pydantic_users" -> process_pydantic_users(us, v.elapsed)
          [] res.op = "process_pyo3_users" -> process_pyo3_users(us, v.elapsed)
          [] res.op = "benchmark_pydantic_process" ->
                 benchmark_pydantic_process(us, v.elapsed_us)
          [] res.op = "benchmark_pydantic_process_rs" ->
                 benchmark_pydantic_process_rs(us, v.elapsed_us)
          [] res.op = "benchmark_pyo3_process" -> benchmark_pyo3_process(us, v.elapsed_us)

BenchPydanticOps == {"benchmark_pydantic_process", "benchmark_pydantic_process_rs"}

SameTotals(a, b) ==
    a.total_age = b.total_age /\ a.active_count = b.active_count

\* The call succeeded and entity i changed neither total nor `errors`.
SilentlySkipped(i) ==
    /\ res.ret.ok
    /\ LET rest == Recall(Remove(users, i))
       IN  rest.ok /\ res.ret.val = rest.val

\* The call succeeded, entity i added 1 to `errors` and nothing to the totals.
CountedAsError(i) ==
    /\ res.ret.ok
    /\ LET rest == Recall(Remove(users, i))
       IN  /\ rest.ok
           /\ SameTotals(res.ret.val, rest.val)
           /\ res.ret.val.errors = rest.val.errors + 1

\* ------------------------------------------------------------------ C2

\* C2: an entity without `active` makes plain process_pydantic_users fail
\* the whole operation, while benchmark_pydantic_process (either copy)
\* returns its mapping with `errors` exactly 1 higher, and with the totals
\* it returns for the sequence without that entity.
C2_MissingActive ==
    \A i \in Positions : MissingActive(users[i]) =>
        /\ res.op = "process_pydantic_users" =>
              /\ ~res.ret.ok
              /\ AllWellFormed(SubSeq(users, 1, i - 1)) => res.ret.val = "AttributeError"
        /\ res.op \in BenchPydanticOps => CountedAsError(i)

C2_Witness ==
    /\ res.op = "benchmark_pydantic_process"
    /\ Len(users) = 3
    /\ MissingActive(users[1])
    /\ WellFormed(users[2]) /\ users[2].active = PyBool(TRUE)
    /\ res.ret.val.errors = 1
    /\ res.ret.val.active_count >= 1

\* ------------------------------------------------------------------ C3

OthersWellFormed(i) == AllWellFormed(Remove(users, i))

IndirectOps == {"process_pydantic_users"} \cup BenchPydanticOps

\* C3 as claimed: a TypeMismatch silently skips the entity in the plain
\* and in the benchmark variant: the call succeeds, the entity counts for
\* nothing and `errors` is not incremented.  (Stated for sequences whose
\* other entities are well-formed.)
C3_AlwaysSilentlySkipped ==
    \A i \in Positions : TypeMismatch(users[i]) /\ OthersWellFormed(i) =>
        (res.op \in IndirectOps => SilentlySkipped(i))

\* C3, amended: a TypeMismatch makes plain process_pydantic_users fail
\* (with the extraction's TypeError when nothing failed before it); the
\* benchmark of benchmark_pydantic_process.rs counts the entity in `errors`
\* and continues; only the benchmark of lib.rs silently skips it.
C3_TypeMismatch ==
    \A i \in Positions : TypeMismatch(users[i]) =>
        /\ res.op = "process_pydantic_users" =>
              /\ ~res.ret.ok
              /\ AllWellFormed(SubSeq(users, 1, i - 1)) => res.ret.val = "TypeError"
        /\ res.op = "benchmark_pydantic_process" => SilentlySkipped(i)
        /\ res.op = "benchmark_pydantic_process_rs" => CountedAsError(i)

C3_Witness ==
    /\ res.op = "benchmark_pydantic_process_rs"
    /\ Len(users) = 3
    /\ ActiveMismatch(users[2])
    /\ users[1] = Entity("obj", PyBool(TRUE), PyInt(30))
    /\ users[3] = Entity("obj", PyBool(TRUE), PyInt(10))
    /\ res.ret.val.errors = 1
    /\ res.ret.val.total_age = 40

\* ------------------------------------------------------------------ C4

\* C4 as claimed: an entity whose `active` is true and whose `age` cannot
\* be read is silently excluded: the call continues, the totals do not
\* change and no error is counted.  (Stated for sequences whose other
\* entities are well-formed.)
C4_AlwaysSilentlyExcluded ==
    \A i \in Positions : AgeUnreadable(users[i]) /\ OthersWellFormed(i) =>
        (res.op \in IndirectOps => SilentlySkipped(i))

\* C4, amended: such an entity makes plain process_pydantic_users fail
\* (AttributeError for an absent `age`, TypeError for one of the wrong
\* type, when nothing failed before it); the benchmark of
\* benchmark_pydantic_process.rs counts it in `errors` and continues; only
\* the benchmark of lib.rs silently excludes it.
C4_AgeUnreadable ==
    \A i \in Positions : AgeUnreadable(users[i]) =>
        /\ res.op = "process_pydantic_users" =>
              /\ ~res.ret.ok
              /\ AllWellFormed(SubSeq(users, 1, i - 1)) =>
                    res.ret.val = (IF users[i].age.t = "absent"
                                   THEN "AttributeError" ELSE "TypeError")
        /\ res.op = "benchmark_pydantic_process" => SilentlySkipped(i)
        /\ res.op = "benchmark_pydantic_process_rs" => CountedAsError(i)

C4_Witness ==
    /\ res.op = "process_pydantic_users"
    /\ Len(users) = 3
    /\ users[1] = Entity("obj", PyBool(TRUE), PyInt(30))
    /\ users[2] = Entity("obj", PyBool(TRUE), Absent)
    /\ users[3] = Entity("obj", PyBool(TRUE), PyInt(10))
    /\ res.ret = Err("AttributeError")

\* ------------------------------------------------------------------ C7

Example ==
    << Entity("obj", PyBool(TRUE), PyInt(30)),
       Entity("obj", PyBool(FALSE), PyInt(99)),
       Entity("obj", PyBool(TRUE), PyInt(10)) >>

\* C7: over well-formed entities process_pydantic_users succeeds with
\* total_age the sum of `age` over the active entities and active_count
\* their number; the example gives 40 and 2.
C7_IndirectTotals ==
    res.op = "process_pydantic_users" /\ AllWellFormed(users) =>
        /\ res.ret.ok
        /\ res.ret.val.total_age = SumActiveAge(users)
        /\ res.ret.val.active_count = CountActive(users)
        /\ users = Example =>
              res.ret.val.total_age = 40 /\ res.ret.val.active_count = 2

C7_Witness ==
    /\ res.op = "process_pydantic_users"
    /\ users = Example
    /\ res.ret.ok
    /\ res.ret.val.total_age = 40

\* ------------------------------------------------------------------ C8

\* C8: over a sequence of Users the direct path and the indirect path
\* return the same (total_age, active_count), whether the indirect path
\* reads the same User instances or objects of another class carrying the
\* same `active` and `age`.
C8_DirectEqualsIndirect ==
    AllUsers(users) =>
        /\ res.op = "process_pyo3_users" =>
              /\ res.ret.ok
              /\ \A us \in {users, AsObjects(users)} :
                    LET ind == process_pydantic_users(us, res.ret.val.elapsed)
                    IN  ind.ok /\ SameTotals(res.ret.val, ind.val)
        /\ res.op = "process_pydantic_users" =>
              /\ res.ret.ok
              /\ LET dir == process_pyo3_users(users, res.ret.val.elapsed)
                 IN  dir.ok /\ SameTotals(res.ret.val, dir.val)

C8_Witness ==
    /\ res.op = "process_pyo3_users"
    /\ Len(users) = 3
    /\ AllUsers(users)
    /\ res.ret.ok
    /\ res.ret.val.active_count = 2
    /\ res.ret.val.total_age = 40

\* ------------------------------------------------------------------ C9

\* C9: over valid entities each benchmark returns the totals of its plain
\* variant: benchmark_pydantic_process (either copy) those of
\* process_pydantic_users, with errors = 0, and benchmark_pyo3_process
\* those of process_pyo3_users.
C9_BenchmarkEqualsPlain ==
    /\ res.op \in BenchPydanticOps /\ AllWellFormed(users) =>
          /\ res.ret.ok
          /\ res.ret.val.errors = 0
          /\ LET plain == process_pydantic_users(users, res.ret.val.elapsed_us)
             IN  plain.ok /\ SameTotals(res.ret.val, plain.val)
    /\ res.op = "benchmark_pyo3_process" /\ AllUsers(users) =>
          /\ res.ret.ok
          /\ LET plain == process_pyo3_users(users, res.ret.val.elapsed_us)
             IN  plain.ok /\ SameTotals(res.ret.val, plain.val)

C9_Witness ==
    /\ res.op = "benchmark_pyo3_process"
    /\ Len(users) = 3
    /\ AllUsers(users)
    /\ res.ret.ok
    /\ res.ret.val.active_count = 2
    /\ res.ret.val.total_age = 60

\* ----------------------------------------------------------------- C10

\* C10: when some entity is not a User, process_pyo3_users and
\* benchmark_pyo3_process return only the error: no totals, wherever the
\* entity sits.
C10_ViewFailureFatal ==
    (\E i \in Positions : ~IsUser(users[i])) =>
        (res.op \in {"process_pyo3_users", "benchmark_pyo3_process"} =>
            res.ret = Err("TypeError"))

C10_Witness ==
    /\ res.op = "benchmark_pyo3_process"
    /\ Len(users) = 3
    /\ IsUser(users[1]) /\ FieldActive(users[1])
    /\ IsUser(users[2]) /\ FieldActive(users[2])
    /\ ~IsUser(users[3])
    /\ ~res.ret.ok

\* ------------------------------------------------------ the User record

\* i32: the type of User.id and User.age.
INT32_MAX == 2147483647
INT32_MIN == -INT32_MAX - 1

\* Longest name and longest email of the Users the model draws.
MaxStrLen == 1

\* Characters of names and of emails: a letter, characters that JSON
\* escapes (quote, backslash, newline) and a space.
NameChars == {"a", "\"", " "}
EmailChars == {"@", "\\", "\n"}

\* User::new(id, name, email, age, active): no validation.
NewUser(id, name, email, age, active) ==
    [id |-> id, name |-> name, email |-> email, age |-> age, active |-> active]

Users ==
    { NewUser(id, name, email, age, active) :
        id \in {INT32_MIN, 1},
        name \in SeqsUpTo(NameChars, MaxStrLen),
        email \in SeqsUpTo(EmailChars, MaxStrLen),
        age \in {INT32_MIN, 30, INT32_MAX},
        active \in BOOLEAN }

\* ------------------------------------------- serde_json: serialization

Digit == <<"0", "1", "2", "3", "4", "5", "6", "7", "8", "9">>

\* The decimal digits of -n, for n <= 0 (so that INT32_MIN has them).
RECURSIVE NegDigits(_)
NegDigits(n) ==
    IF n = 0 THEN <<>>
    ELSE LET d == (10 - (n % 10)) % 10
         IN  NegDigits((n + d) \div 10) \o <<Digit[d + 1]>>

\* An i32 as serde_json writes it (itoa).
ItoA(n) ==
    IF n = 0 THEN <<"0">>
    ELSE IF n < 0 THEN <<"-">> \o NegDigits(n)
    ELSE NegDigits(-n)

\* Mutant of EscapeChar: the backslash is written as it is.
EscapeCharQuoteOnly(c) ==
    IF c = "\"" THEN <<"\\", "\"">> ELSE <<c>>

\* serde_json's escape of one character of a string.
EscapeChar(c) ==
    CASE c = "\"" -> <<"\\", "\"">>
      [] c = "\\" -> <<"\\", "\\">>
      [] c = "\n" -> <<"\\", "n">>
      [] c = "\t" -> <<"\\", "t">>
      [] c = "\r" -> <<"\\", "r">>
      [] c = "\f" -> <<"\\", "f">>
      [] OTHER -> <<c>>

RECURSIVE EscapeAll(_)
EscapeAll(str) ==
    IF str = <<>> THEN <<>> ELSE EscapeChar(Head(str)) \o EscapeAll(Tail(str))

\* A string as serde_json writes it: quoted and escaped.
Quote(str) == <<"\"">> \o EscapeAll(str) \o <<"\"">>

BoolText(b) == IF b THEN <<"t", "r", "u", "e">> ELSE <<"f", "a", "l", "s", "e">>

\* The field names, in the order the struct declares them.
KeyId == <<"i", "d">>
KeyName == <<"n", "a", "m", "e">>
KeyEmail == <<"e", "m", "a", "i", "l">>
KeyAge == <<"a", "g", "e">>
KeyActive == <<"a", "c", "t", "i", "v", "e">>
FieldKeys == <<KeyId, KeyName, KeyEmail, KeyAge, KeyActive>>

\* #[derive(Serialize)]: the fields in declaration order, each a key and
\* the text of its value.
Member(key, value) == [key |-> key, value |-> value]
SerializeFields(u) ==
    << Member(KeyId, ItoA(u.id)),
       Member(KeyName, Quote(u.name)),
       Member(KeyEmail, Quote(u.email)),
       Member(KeyAge, ItoA(u.age)),
       Member(KeyActive, BoolText(u.active)) >>

\* CompactFormatter: no whitespace at all.
RECURSIVE WriteCompact(_, _)
WriteCompact(members, i) ==
    IF i > Len(members) THEN <<>>
    ELSE (IF i = 1 THEN <<>> ELSE <<",">>)
         \o Quote(members[i].key) \o <<":">> \o members[i].value
         \o WriteCompact(members, i + 1)

CompactObject(members) == <<"{">> \o WriteCompact(members, 1) \o <<"}">>

\* PrettyFormatter: each member on a line of its own, indented by two
\* spaces, ": " after the key; an empty object is "{}".
RECURSIVE WritePretty(_, _)
WritePretty(members, i) ==
    IF i > Len(members) THEN <<>>
    ELSE (IF i = 1 THEN <<"\n">> ELSE <<",", "\n">>)
         \o <<" ", " ">> \o Quote(members[i].key) \o <<":", " ">> \o members[i].value
         \o WritePretty(members, i + 1)

\* Mutant of PrettyObject: a comma follows the last member as well.
PrettyObjectTrailingComma(members) ==
    <<"{">> \o WritePretty(members, 1)
            \o (IF members = <<>> THEN <<>> ELSE <<",", "\n">>) \o <<"}">>

PrettyObject(members) ==
    <<"{">> \o WritePretty(members, 1)
            \o (IF members = <<>> THEN <<>> ELSE <<"\n">>) \o <<"}">>

\* User::json(&self) -> PyResult<String>: serde_json::to_string(self).
json(u) == Ok(CompactObject(SerializeFields(u)))

\* User::json_pretty(&self) -> PyResult<String>: serde_json::to_string_pretty(self).
json_pretty(u) == Ok(PrettyObject(SerializeFields(u)))

\* ----------------------------------------- serde_json: deserialization
\* The reader of serde_json over a text, as far as the texts of the model
\* go: objects, arrays, strings with the escapes EscapeChar writes (and
\* \/), integers, true, false, null.  The texts of the model hold no \b or
\* \u escape, no fraction or exponent and no nested value.

\* A step of the reader: the position after what it read, and the value.
POk(pos, val) == [ok |-> TRUE, pos |-> pos, val |-> val]
PErr(msg) == [ok |-> FALSE, pos |-> 0, val |-> msg]

\* The character at pos, or "EOF" past the end of the text.
At(t, pos) == IF pos >= 1 /\ pos <= Len(t) THEN t[pos] ELSE "EOF"

Whitespace == {" ", "\n", "\t", "\r"}
Digits == {"0", "1", "2", "3", "4", "5", "6", "7", "8", "9"}
DigitValue(c) == CHOOSE d \in 0..9 : Digit[d + 1] = c

\* parse_whitespace
RECURSIVE SkipWhitespace(_, _)
SkipWhitespace(t, pos) ==
    IF At(t, pos) \in Whitespace THEN SkipWhitespace(t, pos + 1) ELSE pos

\* The text holds `word` at pos (parse_ident).
HasWord(t, pos, word) ==
    /\ pos + Len(word) - 1 <= Len(t)
    /\ SubSeq(t, pos, pos + Len(word) - 1) = word

\* The character an escape stands for.
Unescape(c) ==
    CASE c = "\"" -> "\""
      [] c = "\\" -> "\\"
      [] c = "/" -> "/"
      [] c = "n" -> "\n"
      [] c = "t" -> "\t"
      [] c = "r" -> "\r"
      [] c = "f" -> "\f"

\* parse_str, from the character after the opening quote.
RECURSIVE ParseStr(_, _, _)
ParseStr(t, pos, acc) ==
    LET c == At(t, pos)
    IN  CASE c = "EOF" -> PErr("EOF while parsing a string")
          [] c = "\"" -> POk(pos + 1, acc)
          [] c = "\\" ->
                IF At(t, pos + 1) \in {"\"", "\\", "/", "n", "t", "r", "f"}
                THEN ParseStr(t, pos + 2, Append(acc, Unescape(At(t, pos + 1))))
                ELSE PErr("invalid escape")
          [] c \in {"\n", "\t", "\r", "\f"} ->
                PErr("control character (\\u0000-\\u001F) found while parsing a string")
          [] OTHER -> ParseStr(t, pos + 1, Append(acc, c))

\* The digits of an integer, accumulated on the side of its sign; a value
\* that leaves the i32 range is refused (visit_i64 / visit_u64 of the i32
\* visitor: "invalid value").
RECURSIVE ParseDigits(_, _, _, _)
ParseDigits(t, pos, negative, acc) ==
    LET c == At(t, pos)
    IN  IF c \notin Digits
        THEN IF c \in {".", "e", "E"} THEN PErr("invalid type: floating point")
             ELSE IF negative /\ acc = 0 THEN PErr("invalid type: floating point")
             ELSE POk(pos, acc)
        ELSE LET d == DigitValue(c)
             IN  IF negative
                 THEN IF acc < -214748364 \/ (acc = -214748364 /\ d > 8)
                      THEN PErr("invalid value: out of range")
                      ELSE ParseDigits(t, pos + 1, negative, acc * 10 - d)
                 ELSE IF acc > 214748364 \/ (acc = 214748364 /\ d > 7)
                      THEN PErr("invalid value: out of range")
                      ELSE ParseDigits(t, pos + 1, negative, acc * 10 + d)

\* parse_integer: an optional minus, then 0 or a digit string that does
\* not start with 0.
ParseInteger(t, pos) ==
    LET negative == At(t, pos) = "-"
        first == IF negative THEN pos + 1 ELSE pos
    IN  IF At(t, first) \notin Digits THEN PErr("invalid number")
        ELSE IF At(t, first) = "0" /\ At(t, first + 1) \in Digits
             THEN PErr("invalid number")
        ELSE ParseDigits(t, first, negative, 0)

\* i32::deserialize at pos (whitespace already passed).
DeserializeI32(t, pos) ==
    IF At(t, pos) \in Digits \cup {"-"} THEN ParseInteger(t, pos)
    ELSE IF At(t, pos) = "EOF" THEN PErr("EOF while parsing a value")
    ELSE PErr("invalid type: expected i32")

\* String::deserialize
DeserializeString(t, pos) ==
    IF At(t, pos) = "\"" THEN ParseStr(t, pos + 1, <<>>)
    ELSE IF At(t, pos) = "EOF" THEN PErr("EOF while parsing a value")
    ELSE PErr("invalid type: expected a string")

\* bool::deserialize
DeserializeBool(t, pos) ==
    IF HasWord(t, pos, BoolText(TRUE)) THEN POk(pos + 4, TRUE)
    ELSE IF HasWord(t, pos, BoolText(FALSE)) THEN POk(pos + 5, FALSE)
    ELSE IF At(t, pos) = "EOF" THEN PErr("EOF while parsing a value")
    ELSE PErr("invalid type: expected a boolean")

RECURSIVE SkipDigits(_, _)
SkipDigits(t, pos) == IF At(t, pos) \in Digits THEN SkipDigits(t, pos + 1) ELSE pos

\* Mutant of IgnoreValue: #[serde(deny_unknown_fields)].
IgnoreValueDenied(t, pos) == PErr("unknown field")

\* IgnoredAny::deserialize: the value of a key that is no field is read
\* and dropped.
IgnoreValue(t, pos) ==
    LET c == At(t, pos)
    IN  CASE c = "\"" -> ParseStr(t, pos + 1, <<>>)
          [] c \in Digits -> POk(SkipDigits(t, pos), 0)
          [] c = "-" /\ At(t, pos + 1) \in Digits -> POk(SkipDigits(t, pos + 1), 0)
          [] HasWord(t, pos, BoolText(TRUE)) -> POk(pos + 4, TRUE)
          [] HasWord(t, pos, BoolText(FALSE)) -> POk(pos + 5, FALSE)
          [] HasWord(t, pos, <<"n", "u", "l", "l">>) -> POk(pos + 4, 0)
          [] OTHER -> PErr("expected value")

\* The value of field number f (1: id .. 5: active), by the field's type.
DeserializeField(f, t, pos) ==
    CASE f \in {1, 4} -> DeserializeI32(t, pos)
      [] f \in {2, 3} -> DeserializeString(t, pos)
      [] f = 5 -> DeserializeBool(t, pos)

\* The field a key names (0: none; such a key is ignored, the struct has
\* no deny_unknown_fields).
FieldOf(key) ==
    IF \E f \in 1..5 : FieldKeys[f] = key
    THEN CHOOSE f \in 1..5 : FieldKeys[f] = key
    ELSE 0

\* Option<T> of each field while the map is read.
None == [some |-> FALSE, val |-> 0]
Some(x) == [some |-> TRUE, val |-> x]
NoFields == [f \in 1..5 |-> None]

\* The User of the five values read.
BuildUser(got) ==
    NewUser(got[1].val, got[2].val, got[3].val, got[4].val, got[5].val)

\* Mutant of FinishMap: #[serde(default)], a missing field takes its
\* type's default.
FinishMapDefaulting(pos, got) ==
    POk(pos, NewUser(IF got[1].some THEN got[1].val ELSE 0,
                     IF got[2].some THEN got[2].val ELSE <<>>,
                     IF got[3].some THEN got[3].val ELSE <<>>,
                     IF got[4].some THEN got[4].val ELSE 0,
                     IF got[5].some THEN got[5].val ELSE FALSE))

\* The end of visit_map: every field must have been read.
FinishMap(pos, got) ==
    IF \E m \in 1..5 : ~got[m].some
    THEN PErr("missing field")
    ELSE POk(pos, BuildUser(got))

\* visit_map of the derived Deserialize: the members up to the closing
\* brace.  `first` is true before the first key.
RECURSIVE VisitMap(_, _, _, _)
VisitMap(t, pos, first, got) ==
    LET p == SkipWhitespace(t, pos)
        c == At(t, p)
        afterComma == SkipWhitespace(t, p + 1)
        keyAt == IF first THEN p ELSE afterComma
        key == ParseStr(t, keyAt + 1, <<>>)
        colon == SkipWhitespace(t, key.pos)
        valueAt == SkipWhitespace(t, colon + 1)
        f == FieldOf(key.val)
        value == IF f = 0 THEN IgnoreValue(t, valueAt) ELSE DeserializeField(f, t, valueAt)
    IN  IF c = "EOF" THEN PErr("EOF while parsing an object")
        ELSE IF c = "}"
        THEN FinishMap(p + 1, got)
        ELSE IF ~first /\ c # "," THEN PErr("expected , or }")
        ELSE IF ~first /\ At(t, afterComma) = "}" THEN PErr("trailing comma")
        ELSE IF At(t, keyAt) = "EOF" THEN PErr("EOF while parsing an object")
        ELSE IF At(t, keyAt) # "\"" THEN PErr("key must be a string")
        ELSE IF ~key.ok THEN key
        ELSE IF At(t, colon) # ":" THEN PErr("expected :")
        ELSE IF f # 0 /\ got[f].some THEN PErr("duplicate field")
        ELSE IF ~value.ok THEN value
        ELSE VisitMap(t, value.pos, FALSE,
                      IF f = 0 THEN got ELSE [got EXCEPT ![f] = Some(value.val)])

\* visit_seq of the derived Deserialize: the five values in field order,
\* as the elements of an array.
RECURSIVE VisitSeq(_, _, _, _)
VisitSeq(t, pos, f, got) ==
    LET p == SkipWhitespace(t, pos)
        c == At(t, p)
        valueAt == IF f = 1 THEN p ELSE SkipWhitespace(t, p + 1)
        value == DeserializeField(f, t, valueAt)
    IN  IF c = "EOF" THEN PErr("EOF while parsing a list")
        ELSE IF f = 6
        THEN IF c = "]" THEN POk(p + 1, BuildUser(got)) ELSE PErr("trailing characters")
        ELSE IF c = "]" THEN PErr("invalid length")
        ELSE IF f > 1 /\ c # "," THEN PErr("expected , or ]")
        ELSE IF ~value.ok THEN value
        ELSE VisitSeq(t, value.pos, f + 1, [got EXCEPT ![f] = Some(value.val)])

\* deserialize_struct, then Deserializer::end: only whitespace may follow.
FromStr(t) ==
    LET p == SkipWhitespace(t, 1)
        c == At(t, p)
        r == CASE c = "{" -> VisitMap(t, p + 1, TRUE, NoFields)
               [] c = "[" -> VisitSeq(t, p + 1, 1, NoFields)
               [] c = "EOF" -> PErr("EOF while parsing a value")
               [] OTHER -> PErr("invalid type: expected struct User")
    IN  IF ~r.ok THEN r
        ELSE IF SkipWhitespace(t, r.pos) <= Len(t) THEN PErr("trailing characters")
        ELSE r

\* User::from_json(json_str) -> PyResult<User>: the parser's error becomes
\* a PyValueError carrying its message.
from_json(json_str) ==
    LET r == FromStr(json_str)
    IN  IF r.ok THEN Ok(r.val) ELSE Err(r.val)

\* ------------------------------------------------------ codec scenario

\* How a text came to be: by json, by json_pretty, or written by a caller
\* who changed the compact text of `user` (kind), at field f, in way alt.
Origin(kind, f, alt) == [kind |-> kind, f |-> f, alt |-> alt]
NoText == Origin("none", 0, 0)
NoDecode == Err("none")

NullText == <<"n", "u", "l", "l">>

\* Members whose key is none of the five field names.
ExtraMembers ==
    << Member(<<"x">>, <<"1">>),
       Member(<<"x">>, Quote(<<"a">>)),
       Member(<<"I", "D">>, <<"7">>),
       Member(<<"a", "g", "e", "s">>, NullText) >>

\* Values of another type than the field's.
WrongValues(f) ==
    CASE f \in {1, 4} -> << Quote(<<"3", "0">>), BoolText(TRUE), <<"1", ".", "5">>,
                            <<"2", "1", "4", "7", "4", "8", "3", "6", "4", "8">>, NullText >>
      [] f \in {2, 3} -> << <<"1">>, BoolText(FALSE), NullText >>
      [] f = 5 -> << <<"1">>, Quote(BoolText(TRUE)), NullText >>

\* Texts that are not JSON: the compact text cut short, or with something
\* after it, or with a key that is no string.
Broken(t) ==
    << <<>>,
       SubSeq(t, 1, 1),
       SubSeq(t, 1, Len(t) \div 2),
       SubSeq(t, 1, Len(t) - 1),
       t \o <<"x">>,
       t \o <<",">>,
       <<"{", "i", "d", ":", "1", "}">>,
       SubSeq(t, 1, Len(t) - 1) \o <<",", "}">> >>

RECURSIVE WriteArray(_, _)
WriteArray(members, i) ==
    IF i > Len(members) THEN <<>>
    ELSE (IF i = 1 THEN <<>> ELSE <<",">>) \o members[i].value \o WriteArray(members, i + 1)

Craftings ==
    { Origin("missing", f, 0) : f \in 1..5 }
    \cup { Origin("extra", pos, alt) : pos \in {0, 5}, alt \in 1..Len(ExtraMembers) }
    \cup { Origin("wrongtype", f, alt) : f \in {1, 4}, alt \in 1..5 }
    \cup { Origin("wrongtype", f, alt) : f \in {2, 3, 5}, alt \in 1..3 }
    \cup { Origin("broken", 0, alt) : alt \in 1..8 }
    \cup { Origin("duplicate", f, 0) : f \in {1, 5} }
    \cup { Origin("array", 0, 0) }

\* The text a caller writes for crafting c from the fields of u.
CraftText(u, c) ==
    LET ms == SerializeFields(u)
    IN  CASE c.kind = "missing" -> CompactObject(Remove(ms, c.f))
          [] c.kind = "extra" ->
                CompactObject(SubSeq(ms, 1, c.f) \o <<ExtraMembers[c.alt]>>
                              \o SubSeq(ms, c.f + 1, 5))
          [] c.kind = "wrongtype" ->
                CompactObject([ms EXCEPT ![c.f].value = WrongValues(c.f)[c.alt]])
          [] c.kind = "broken" -> Broken(CompactObject(ms))[c.alt]
          [] c.kind = "duplicate" -> CompactObject(ms \o <<ms[c.f]>>)
          [] c.kind = "array" -> <<"[">> \o WriteArray(ms, 1) \o <<"]">>

InitJson ==
    /\ user \in Users
    /\ text = <<>> /\ origin = NoText /\ decoded = NoDecode
    /\ users = <<>> /\ res = NoCall
    /\ expect = NoUser /\ calc = NoCalculator /\ steps = 0 /\ args = NoArgs

\* The three calls are pure (&self, or no self at all), so a behaviour is
\* one text, produced once, and its decoding.

\* text = user.json()
CallJson ==
    /\ origin = NoText
    /\ text' = Unwrap(json(user))
    /\ origin' = Origin("json", 0, 0)
    /\ decoded' = NoDecode
    /\ UNCHANGED <<user, users, res, expect, calc, steps, args>>

\* text = user.json_pretty()
CallJsonPretty ==
    /\ origin = NoText
    /\ text' = Unwrap(json_pretty(user))
    /\ origin' = Origin("json_pretty", 0, 0)
    /\ decoded' = NoDecode
    /\ UNCHANGED <<user, users, res, expect, calc, steps, args>>

\* The caller writes a text of its own.
WriteText ==
    /\ origin = NoText
    /\ \E c \in Craftings :
          /\ text' = CraftText(user, c)
          /\ origin' = c
    /\ decoded' = NoDecode
    /\ UNCHANGED <<user, users, res, expect, calc, steps, args>>

\* decoded = User.from_json(text)
CallFromJson ==
    /\ origin # NoText
    /\ decoded = NoDecode
    /\ decoded' = from_json(text)
    /\ UNCHANGED <<user, text, origin, users, res, expect, calc, steps, args>>

NextJson ==
    \/ CallJson
    \/ CallJsonPretty
    \/ WriteText
    \/ CallFromJson

SpecJson == InitJson /\ [][NextJson]_vars

\* from_json has returned for the current text.
HasDecoded == decoded # NoDecode

\* ------------------------------------------------------------------ C1

\* C1: decoding what json or json_pretty wrote for a User succeeds and
\* yields a User equal to it in all five fields.
C1_RoundTrip ==
    origin.kind \in {"json", "json_pretty"} /\ HasDecoded =>
        /\ decoded.ok
        /\ decoded.val.id = user.id
        /\ decoded.val.name = user.name
        /\ decoded.val.email = user.email
        /\ decoded.val.age = user.age
        /\ decoded.val.active = user.active

C1_Witness ==
    /\ origin.kind = "json_pretty"
    /\ user.age = INT32_MIN /\ user.id = INT32_MIN
    /\ user.name = <<"\"">> /\ user.email = <<>>
    /\ decoded = Ok(user)

\* ------------------------------------------------------------------ C5

\* C5 as claimed: a text with the five keys and one more key is refused.
C5_ExtraKeyRefused ==
    origin.kind = "extra" /\ HasDecoded => ~decoded.ok

\* C5, amended: a key that is none of the five is read and ignored; the
\* text decodes to the User of its five fields.
C5_ExtraKeyIgnored ==
    origin.kind = "extra" /\ HasDecoded => decoded = Ok(user)

C5_Witness ==
    /\ origin = Origin("extra", 5, 2)
    /\ decoded = Ok(user)

\* ------------------------------------------------------------------ C6

InactiveAgeless(e) == e.active = PyBool(FALSE) /\ e.age.t \notin {"int", "bool"}

\* C16: `age` is looked up only after `active` has been read as true: an
\* entity whose `active` is false and whose `age` is absent or of the
\* wrong type counts for nothing on the indirect path.  Each benchmark
\* returns what it returns without the entity (same totals, same
\* `errors`); process_pydantic_users does too, and fails only if it fails
\* without the entity.
C16_AgeReadOnlyWhenActive ==
    \A i \in Positions : InactiveAgeless(users[i]) =>
        /\ res.op \in BenchPydanticOps => SilentlySkipped(i)
        /\ res.op = "process_pydantic_users" =>
              IF res.ret.ok THEN SilentlySkipped(i)
              ELSE res.ret = PydanticLoop(Remove(users, i), 1, 0, 0)

C16_Witness ==
    /\ res.op = "benchmark_pydantic_process_rs"
    /\ Len(users) = 3
    /\ users[1] = Entity("obj", PyBool(TRUE), PyInt(30))
    /\ users[2] = Entity("obj", PyBool(FALSE), Absent)
    /\ users[3] = Entity("obj", PyBool(TRUE), PyInt(10))
    /\ res.ret.val.errors = 0
    /\ res.ret.val.total_age = 40
    /\ res.ret.val.active_count = 2

\* ----------------------------------------------------------------- C14

\* The text without its whitespace characters, wherever they stand.
IsInk(c) == c \notin Whitespace
StripWhitespace(t) == SelectSeq(t, IsInk)

\* The number of backslashes that end at pos.
RECURSIVE BackslashRun(_, _)
BackslashRun(t, pos) ==
    IF At(t, pos) = "\\" THEN 1 + BackslashRun(t, pos - 1) ELSE 0

\* The positions of the quotes that open or close a string literal: the
\* ones no backslash escapes.
LiteralQuotes(t) ==
    {i \in 1..Len(t) : t[i] = "\"" /\ BackslashRun(t, i - 1) % 2 = 0}

RECURSIVE StripRange(_, _, _, _)
StripRange(t, quotes, lo, hi) ==
    IF lo > hi THEN <<>>
    ELSE IF lo = hi
    THEN IF /\ t[lo] \in Whitespace
            /\ Cardinality({i \in quotes : i < lo}) % 2 = 0
         THEN <<>> ELSE <<t[lo]>>
    ELSE LET mid == (lo + hi) \div 2
         IN  StripRange(t, quotes, lo, mid) \o StripRange(t, quotes, mid + 1, hi)

\* The text without the whitespace that stands outside string literals: a
\* position is inside a literal when an odd number of literal quotes
\* come before it.
StripBetweenTokens(t) == StripRange(t, LiteralQuotes(t), 1, Len(t))

\* The first position at or after `from` where the text holds `word`
\* (Len(t) + 1 if nowhere).
FindWord(t, word, from) ==
    LET hits == {p \in from..Len(t) : HasWord(t, p, word)}
    IN  IF hits = {} THEN Len(t) + 1
        ELSE CHOOSE p \in hits : \A q \in hits : p <= q

RECURSIVE KeysFrom(_, _, _)
KeysFrom(t, k, from) ==
    IF k > Len(FieldKeys) THEN TRUE
    ELSE LET at == FindWord(t, Quote(FieldKeys[k]) \o <<":">>, from)
         IN  at <= Len(t) /\ KeysFrom(t, k + 1, at + 1)

\* The keys id, name, email, age, active stand in the text in this order,
\* id first.
KeysInOrder(t) ==
    /\ HasWord(StripWhitespace(t), 2, Quote(KeyId) \o <<":">>)
    /\ KeysFrom(StripWhitespace(t), 1, 1)

HoldsSpace(str) == \E i \in 1..Len(str) : str[i] = " "

\* C14 as stated: json_pretty's output with all whitespace characters
\* removed is json's output, for every User.
C14_StrippedPrettyIsCompact ==
    origin.kind = "json_pretty" =>
        /\ StripWhitespace(text) = Unwrap(json(user))
        /\ KeysInOrder(text) /\ KeysInOrder(Unwrap(json(user)))

\* C14: json_pretty's output with the whitespace between its tokens
\* removed is json's output, with the keys in the order id, name, email,
\* age, active in both; with all whitespace characters removed it is
\* json's output exactly when neither name nor email holds a space.
C14_PrettyIsCompactBetweenTokens ==
    origin.kind = "json_pretty" =>
        /\ StripBetweenTokens(text) = Unwrap(json(user))
        /\ KeysInOrder(text) /\ KeysInOrder(Unwrap(json(user)))
        /\ StripWhitespace(text) = Unwrap(json(user))
              <=> ~HoldsSpace(user.name) /\ ~HoldsSpace(user.email)

C14_Witness ==
    /\ origin.kind = "json_pretty"
    /\ user.name = <<" ">>
    /\ StripBetweenTokens(text) = Unwrap(json(user))
    /\ StripWhitespace(text) # Unwrap(json(user))

\* ------------------------------------------------ User: the attributes

\* What a method call leaves behind: the instance and the returned value.
Done(self, ret) == [self |-> self, ret |-> ret]

\* Mutant of set_id: the attribute is declared #[pyo3(get, set)].
set_id_writable(self, value) == Done([self EXCEPT !.id = value], Ok("None"))

\* #[pyo3(get)] id: the attribute has no setter, so an assignment raises
\* AttributeError and the instance is as before.
set_id(self, value) == Done(self, Err("AttributeError"))

\* #[pyo3(get, set)] name, email, age, active: the generated setters.
set_name(self, value) == Done([self EXCEPT !.name = value], Ok("None"))
set_email(self, value) == Done([self EXCEPT !.email = value], Ok("None"))
set_age(self, value) == Done([self EXCEPT !.age = value], Ok("None"))
set_active(self, value) == Done([self EXCEPT !.active = value], Ok("None"))

\* User::dict(&self, py) -> Bound<PyDict>: five set_item calls, in this
\* order, each with the native value.
dict(self) ==
    << <<KeyId, self.id>>, <<KeyName, self.name>>, <<KeyEmail, self.email>>,
       <<KeyAge, self.age>>, <<KeyActive, self.active>> >>

\* Mutant of model_copy: the copy takes a fresh id.
model_copy_renumbered(self, name, email, age, active) ==
    [id |-> 0, name |-> name, email |-> email, age |-> age, active |-> active]

\* User::model_copy(&self, name, email, age, active) -> Self
model_copy(self, name, email, age, active) ==
    [id |-> self.id, name |-> name, email |-> email, age |-> age,
     active |-> active]

\* User::__repr__(&self): format!("User(id={}, name='{}', email='{}')", ..)
repr_user(self) ==
    <<"U", "s", "e", "r", "(", "i", "d", "=">> \o ItoA(self.id)
    \o <<",", " ", "n", "a", "m", "e", "=", "'">> \o self.name
    \o <<"'", ",", " ", "e", "m", "a", "i", "l", "=", "'">> \o self.email
    \o <<"'", ")">>

\* ------------------------------------------ specification: User object

\* The values an instance is built with, and the values assigned later:
\* the two are disjoint, so a state shows which attributes were assigned.
BuiltIds == {INT32_MIN, 1, INT32_MAX}
BuiltNames == {<<>>, <<"a">>}
BuiltEmails == {<<>>, <<"@">>}
BuiltAges == {INT32_MIN, 30}
SetIds == {0, 7}
SetNames == {<<" ">>, <<"a", "\"">>}
SetEmails == {<<"\\">>, <<"@", "\n">>}
SetAges == {31, INT32_MAX}
CopyArgs ==
    { <<name, email, age, active>> :
        name \in {<<>>, <<" ">>}, email \in {<<"@">>},
        age \in {INT32_MIN, 31}, active \in BOOLEAN }

Called(op, a, ret) == [op |-> op, args |-> a, ret |-> ret]

\* user = User(id, name, email, age, active), or
\* user = User.from_json(text) for a text holding the same five values.
InitUser ==
    /\ \E id \in BuiltIds, name \in BuiltNames, email \in BuiltEmails,
          age \in BuiltAges, active \in BOOLEAN, way \in {"new", "from_json"} :
          LET built == NewUser(id, name, email, age, active)
          IN  /\ expect = built
              /\ user = IF way = "new" THEN built
                        ELSE Unwrap(from_json(Unwrap(json(built))))
              /\ res = Called(way, <<>>, Ok("None"))
    /\ users = <<>> /\ text = <<>> /\ origin = NoText /\ decoded = NoDecode
    /\ calc = NoCalculator /\ steps = 0 /\ args = NoArgs

\* user.id = value
AssignId ==
    /\ \E value \in SetIds :
          LET done == set_id(user, value)
          IN  /\ user' = done.self
              /\ res' = Called("set_id", <<value>>, done.ret)
    /\ UNCHANGED <<expect, users, text, origin, decoded, calc, steps, args>>

\* user.name = value
AssignName ==
    /\ \E value \in SetNames :
          LET done == set_name(user, value)
          IN  /\ user' = done.self
              /\ res' = Called("set_name", <<value>>, done.ret)
              /\ expect' = [expect EXCEPT !.name = value]
    /\ UNCHANGED <<users, text, origin, decoded, calc, steps, args>>

\* user.email = value
AssignEmail ==
    /\ \E value \in SetEmails :
          LET done == set_email(user, value)
          IN  /\ user' = done.self
              /\ res' = Called("set_email", <<value>>, done.ret)
              /\ expect' = [expect EXCEPT !.email = value]
    /\ UNCHANGED <<users, text, origin, decoded, calc, steps, args>>

\* user.age = value
AssignAge ==
    /\ \E value \in SetAges :
          LET done == set_age(user, value)
          IN  /\ user' = done.self
              /\ res' = Called("set_age", <<value>>, done.ret)
              /\ expect' = [expect EXCEPT !.age = value]
    /\ UNCHANGED <<users, text, origin, decoded, calc, steps, args>>

\* user.active = value
AssignActive ==
    /\ \E value \in BOOLEAN :
          LET done == set_active(user, value)
          IN  /\ user' = done.self
              /\ res' = Called("set_active", <<value>>, done.ret)
              /\ expect' = [expect EXCEPT !.active = value]
    /\ UNCHANGED <<users, text, origin, decoded, calc, steps, args>>

\* The methods below take &self: the instance cannot change under them.

\* user.json()
CallUserJson ==
    /\ res' = Called("json", <<>>, json(user))
    /\ UNCHANGED <<user, expect, users, text, origin, decoded, calc, steps, args>>

\* user.json_pretty()
CallUserJsonPretty ==
    /\ res' = Called("json_pretty", <<>>, json_pretty(user))
    /\ UNCHANGED <<user, expect, users, text, origin, decoded, calc, steps, args>>

\* user.dict()
CallDict ==
    /\ res' = Called("dict", <<>>, Ok(dict(user)))
    /\ UNCHANGED <<user, expect, users, text, origin, decoded, calc, steps, args>>

\* user.model_copy(name, email, age, active)
CallModelCopy ==
    /\ \E a \in CopyArgs :
          res' = Called("model_copy", a, Ok(model_copy(user, a[1], a[2], a[3], a[4])))
    /\ UNCHANGED <<user, expect, users, text, origin, decoded, calc, steps, args>>

\* repr(user)
CallRepr ==
    /\ res' = Called("__repr__", <<>>, Ok(repr_user(user)))
    /\ UNCHANGED <<user, expect, users, text, origin, decoded, calc, steps, args>>

NextUser ==
    \/ AssignId
    \/ AssignName
    \/ AssignEmail
    \/ AssignAge
    \/ AssignActive
    \/ CallUserJson
    \/ CallUserJsonPretty
    \/ CallDict
    \/ CallModelCopy
    \/ CallRepr

SpecUser == InitUser /\ [][NextUser]_vars

\* ----------------------------------------------------------------- C11

\* C11: whatever was done to a User instance (assignments to name, email,
\* age, active, attempts to assign id, json, json_pretty, dict,
\* model_copy, __repr__), its id is the id it was constructed or decoded
\* with, and name, email, age and active hold the value last assigned, or
\* the constructed one if none was.
C11_IdNeverMutated ==
    /\ user.id = expect.id
    /\ user.id \in BuiltIds
    /\ user.name = expect.name /\ user.email = expect.email
    /\ user.age = expect.age /\ user.active = expect.active
    /\ res.op = "set_id" => ~res.ret.ok

\* name, email and age were assigned, an assignment to id was attempted.
C11_Witness ==
    /\ res.op = "set_id" /\ res.args = <<7>>
    /\ user.id = INT32_MIN
    /\ user.name \in SetNames /\ user.email \in SetEmails
    /\ user.age \in SetAges

\* ----------------------------------------------------------------- C12

\* C12: model_copy(n, e, a, act) returns a User with the id of the
\* instance and with name n, email e, age a and active act, and leaves
\* the instance as it was in all five fields.
C12_CopyKeepsId ==
    res.op = "model_copy" =>
        /\ res.ret.ok
        /\ Unwrap(res.ret).id = user.id
        /\ Unwrap(res.ret).name = res.args[1]
        /\ Unwrap(res.ret).email = res.args[2]
        /\ Unwrap(res.ret).age = res.args[3]
        /\ Unwrap(res.ret).active = res.args[4]
        /\ DOMAIN Unwrap(res.ret) = {"id", "name", "email", "age", "active"}
        /\ user = expect

\* A copy that differs from the instance in the four other fields.
C12_Witness ==
    /\ res.op = "model_copy"
    /\ Unwrap(res.ret).id = INT32_MAX
    /\ user.name = <<"a">> /\ Unwrap(res.ret).name = <<" ">>
    /\ user.email = <<"\\">> /\ Unwrap(res.ret).email = <<"@">>
    /\ user.age = 30 /\ Unwrap(res.ret).age = 31
    /\ user.active /\ ~Unwrap(res.ret).active

\* ----------------------------------------------------------- Calculator

\* An f64 that is a dyadic rational: m / 2^e, with e = 0 or m odd.  On
\* such values, as long as m stays below 2^53, f64 addition and
\* multiplication are exact, so they are the rational ones.  The values
\* drawn below stay far inside that range; infinities, NaN and the sign of
\* zero are not represented.
F64(m, e) == [m |-> m, e |-> e]

RECURSIVE Pow(_, _)
Pow(b, n) == IF n = 0 THEN 1 ELSE b * Pow(b, n - 1)

RECURSIVE Normal(_, _)
Normal(m, e) ==
    IF m = 0 THEN F64(0, 0)
    ELSE IF e > 0 /\ m % 2 = 0 THEN Normal(m \div 2, e - 1)
    ELSE F64(m, e)

\* x + y
FAdd(x, y) ==
    LET e == IF x.e >= y.e THEN x.e ELSE y.e
    IN  Normal(x.m * Pow(2, e - x.e) + y.m * Pow(2, e - y.e), e)

\* x * y
FMul(x, y) == Normal(x.m * y.m, x.e + y.e)

\* n in decimal, in exactly `width` digits.
RECURSIVE PadDigits(_, _)
PadDigits(n, width) ==
    IF width = 0 THEN <<>>
    ELSE PadDigits(n \div 10, width - 1) \o <<Digit[(n % 10) + 1]>>

\* impl Display for f64: the shortest decimal text that reads back as the
\* value, without exponent and without ".0" (11.0 is written 11).  A dyadic
\* m / 2^e with m odd has exactly e decimals.
FloatText(x) ==
    LET abs == IF x.m < 0 THEN -x.m ELSE x.m
        unit == Pow(2, x.e)
    IN  (IF x.m < 0 THEN <<"-">> ELSE <<>>)
        \o ItoA(abs \div unit)
        \o (IF x.e = 0 THEN <<>>
            ELSE <<".">> \o PadDigits((abs % unit) * Pow(5, x.e), x.e))

\* Calculator::new(initial_value) -> Self
Calculator_new(initial_value) == [value |-> initial_value]

\* Mutant of Calculator::add: the value read before the addition is
\* returned.
Calculator_add_stale(self, x) ==
    Done([self EXCEPT !.value = FAdd(self.value, x)], self.value)

\* Calculator::add(&mut self, x) -> f64: self.value += x; self.value
Calculator_add(self, x) ==
    LET after == [self EXCEPT !.value = FAdd(self.value, x)]
    IN  Done(after, after.value)

\* Calculator::multiply(&mut self, x) -> f64: self.value *= x; self.value
Calculator_multiply(self, x) ==
    LET after == [self EXCEPT !.value = FMul(self.value, x)]
    IN  Done(after, after.value)

\* Calculator::reset(&mut self) -> f64: self.value = 0.0; self.value
Calculator_reset(self) ==
    LET after == [self EXCEPT !.value = F64(0, 0)]
    IN  Done(after, after.value)

\* Calculator::__repr__(&self): format!("Calculator(value={})", self.value)
Calculator_repr(self) ==
    <<"C", "a", "l", "c", "u", "l", "a", "t", "o", "r", "(",
      "v", "a", "l", "u", "e", "=">> \o FloatText(self.value) \o <<")">>

\* #[pyo3(get, set)] value: the generated getter and setter.
Calculator_get_value(self) == self.value
Calculator_set_value(self, value) == Done([self EXCEPT !.value = value], "None")

\* ------------------------------------------- specification: Calculator

\* Longest sequence of calls on one Calculator.
MaxCalls == 4

\* 3.5, 0.0, -1.5
InitialValues == {F64(7, 1), F64(0, 0), F64(-3, 1)}
\* 2.0, -0.25, 0.0, 1.5
Operands == {F64(2, 0), F64(-1, 2), F64(0, 0), F64(3, 1)}
\* 11.0, -0.75
AssignedValues == {F64(11, 0), F64(-3, 2)}

\* calc = Calculator(initial_value); `expect` holds the instance as it was
\* before the last call.
InitCalc ==
    /\ \E v \in InitialValues :
          /\ calc = Calculator_new(v)
          /\ expect = Calculator_new(v)
          /\ res = Called("new", <<v>>, "None")
    /\ steps = 0
    /\ users = <<>> /\ user = NoUser /\ text = <<>> /\ origin = NoText
    /\ decoded = NoDecode /\ args = NoArgs

Serve(op, a, done) ==
    /\ steps < MaxCalls
    /\ steps' = steps + 1
    /\ expect' = calc
    /\ calc' = done.self
    /\ res' = Called(op, a, done.ret)
    /\ UNCHANGED <<users, user, text, origin, decoded, args>>

\* calc.add(x)
CallCalcAdd == \E x \in Operands : Serve("add", <<x>>, Calculator_add(calc, x))

\* calc.multiply(x)
CallCalcMultiply ==
    \E x \in Operands : Serve("multiply", <<x>>, Calculator_multiply(calc, x))

\* calc.reset()
CallCalcReset == Serve("reset", <<>>, Calculator_reset(calc))

\* repr(calc): &self
CallCalcRepr == Serve("__repr__", <<>>, Done(calc, Calculator_repr(calc)))

\* calc.value: &self
ReadValue == Serve("get_value", <<>>, Done(calc, Calculator_get_value(calc)))

\* calc.value = v
AssignValue ==
    \E v \in AssignedValues : Serve("set_value", <<v>>, Calculator_set_value(calc, v))

NextCalc ==
    \/ CallCalcAdd
    \/ CallCalcMultiply
    \/ CallCalcReset
    \/ CallCalcRepr
    \/ ReadValue
    \/ AssignValue

SpecCalc == InitCalc /\ [][NextCalc]_vars

\* ----------------------------------------------------------------- C13

\* z = x + y and z = x * y as rationals: both sides brought to one
\* denominator.
IsSum(z, x, y) ==
    LET e == x.e + y.e + z.e
    IN  z.m * Pow(2, e - z.e) = x.m * Pow(2, e - x.e) + y.m * Pow(2, e - y.e)

IsProduct(z, x, y) ==
    LET e == x.e + y.e + z.e
    IN  z.m * Pow(2, e - z.e) = x.m * y.m * Pow(2, e - x.e - y.e)

IsNormalF64(x) == x.e >= 0 /\ (x.e = 0 \/ x.m % 2 # 0)

\* C13: each of add(x), multiply(x) and reset() returns the value stored
\* after it; add stores value + x, multiply stores value * x and reset
\* stores 0 whatever the value was (3.5 plus 2.0 is 5.5, 5.5 times 2.0 is
\* 11.0); __repr__ and the value getter leave the value as it was.
C13_CalculatorStateMachine ==
    /\ res.op \in {"add", "multiply", "reset"} =>
          /\ res.ret = calc.value
          /\ IsNormalF64(calc.value)
    /\ res.op = "add" => IsSum(calc.value, expect.value, res.args[1])
    /\ res.op = "multiply" => IsProduct(calc.value, expect.value, res.args[1])
    /\ res.op = "reset" => calc.value = F64(0, 0)
    /\ res.op \in {"__repr__", "get_value"} => calc = expect
    /\ res.op = "add" /\ expect.value = F64(7, 1) /\ res.args[1] = F64(2, 0)
          => res.ret = F64(11, 1)
    /\ res.op = "multiply" /\ expect.value = F64(11, 1) /\ res.args[1] = F64(2, 0)
          => res.ret = F64(11, 0)

\* The third call of new(3.5).add(2.0), multiply(2.0), reset().
C13_Witness ==
    /\ steps = 3
    /\ res.op = "reset"
    /\ expect.value = F64(11, 0)
    /\ res.ret = F64(0, 0)
    /\ calc.value = F64(0, 0)

\* ------------------------------------------------------ add, multiply

\* The i32 operators + and * are compiled according to the build's
\* overflow-checks setting, which no file of the crate fixes: with the
\* checks (the default of cargo's dev profile) an overflowing operation
\* panics, and pyo3 raises the panic as PanicException; without them (the
\* default of the release profile) the result wraps modulo 2^32.

\* a + b is outside the i32 range.
AddOverflows(a, b) ==
    \/ b > 0 /\ a > INT32_MAX - b
    \/ b < 0 /\ a < INT32_MIN - b

\* i32::wrapping_add
WrappingAdd(a, b) ==
    IF b > 0 /\ a > INT32_MAX - b THEN (a + INT32_MIN) + (b + INT32_MIN)
    ELSE IF b < 0 /\ a < INT32_MIN - b THEN (a - INT32_MIN) + (b - INT32_MIN)
    ELSE a + b

Abs(n) == IF n < 0 THEN -n ELSE n

\* a * b is outside the i32 range.
MulOverflows(a, b) ==
    IF a = 0 \/ b = 0 THEN FALSE
    ELSE IF a = INT32_MIN THEN b # 1
    ELSE IF b = INT32_MIN THEN a # 1
    ELSE IF Abs(b) = 1 THEN FALSE
    ELSE IF (a > 0) = (b > 0) THEN Abs(a) > INT32_MAX \div Abs(b)
    ELSE Abs(a) > (INT32_MAX \div Abs(b))
                  + (IF INT32_MAX % Abs(b) = Abs(b) - 1 THEN 1 ELSE 0)

\* Byte k of the two's complement form of n.
Byte(n, k) == (n \div Pow(256, k)) % 256

\* i32::wrapping_mul: the low four bytes of the product of the two's
\* complement forms, read as a signed number.
WrappingMul(a, b) ==
    LET c0 == Byte(a, 0) * Byte(b, 0)
        c1 == Byte(a, 0) * Byte(b, 1) + Byte(a, 1) * Byte(b, 0) + (c0 \div 256)
        c2 == Byte(a, 0) * Byte(b, 2) + Byte(a, 1) * Byte(b, 1)
              + Byte(a, 2) * Byte(b, 0) + (c1 \div 256)
        c3 == Byte(a, 0) * Byte(b, 3) + Byte(a, 1) * Byte(b, 2)
              + Byte(a, 2) * Byte(b, 1) + Byte(a, 3) * Byte(b, 0) + (c2 \div 256)
        top == c3 % 256
    IN  (c0 % 256) + (c1 % 256) * 256 + (c2 % 256) * Pow(256, 2)
        + (IF top >= 128 THEN top - 256 ELSE top) * Pow(256, 3)

\* add(a: i32, b: i32) -> i32 { a + b }
add(a, b, overflow_checks) ==
    IF ~AddOverflows(a, b) THEN Ok(a + b)
    ELSE IF overflow_checks THEN Err("PanicException")
    ELSE Ok(WrappingAdd(a, b))

\* multiply(a: i32, b: i32) -> i32 { a * b }
multiply(a, b, overflow_checks) ==
    IF ~MulOverflows(a, b) THEN Ok(a * b)
    ELSE IF overflow_checks THEN Err("PanicException")
    ELSE Ok(WrappingMul(a, b))

\* ---------------------------------------- specification: add, multiply

Int32Samples ==
    {INT32_MIN, -46341, -1, 0, 1, 2, 46340, 46341, 65536, INT32_MAX}

InitArith ==
    /\ args \in [a : Int32Samples, b : Int32Samples, overflow_checks : BOOLEAN]
    /\ res = Called("none", <<>>, Err("none"))
    /\ users = <<>> /\ user = NoUser /\ text = <<>> /\ origin = NoText
    /\ decoded = NoDecode /\ expect = NoUser /\ calc = NoCalculator /\ steps = 0

\* add(a, b)
CallAdd ==
    /\ res' = Called("add", <<args.a, args.b>>,
                     add(args.a, args.b, args.overflow_checks))
    /\ UNCHANGED <<args, users, user, text, origin, decoded, expect, calc, steps>>

\* multiply(a, b)
CallMultiply ==
    /\ res' = Called("multiply", <<args.a, args.b>>,
                     multiply(args.a, args.b, args.overflow_checks))
    /\ UNCHANGED <<args, users, user, text, origin, decoded, expect, calc, steps>>

NextArith ==
    \/ CallAdd
    \/ CallMultiply

SpecArith == InitArith /\ [][NextArith]_vars

\* ----------------------------------------------------------------- C15

\* C15 as stated: add and multiply return on every pair of int32 inputs,
\* with a + b and a * b reduced modulo 2^32 into the signed 32-bit range;
\* neither traps nor fails on overflow.
C15_TotalWithWraparound ==
    /\ res.op = "add" =>
          /\ res.ret.ok
          /\ Unwrap(res.ret) = WrappingAdd(args.a, args.b)
          /\ ~AddOverflows(args.a, args.b) => Unwrap(res.ret) = args.a + args.b
    /\ res.op = "multiply" =>
          /\ res.ret.ok
          /\ Unwrap(res.ret) = WrappingMul(args.a, args.b)
          /\ ~MulOverflows(args.a, args.b) => Unwrap(res.ret) = args.a * args.b

====
